---- MODULE Spec2Model ----
(***************************************************************************)
(* Model of drug_named_entity_recognition/drugs_finder.py: the 3-gram      *)
(* index, get_fuzzy_match, find_drugs and the lazily filled structure      *)
(* cache dbid_to_mol_lookup.                                               *)
(*                                                                         *)
(* A Python string is a sequence of one-character strings, so that         *)
(* slicing, concatenation and lower() are computed and not assumed.        *)
(* Token indices are Python's (0-based); tokens[k] is written tokens[k+1]. *)
(***************************************************************************)
EXTENDS Integers, Sequences, FiniteSets, TLC

VARIABLES
    dictionary,          \* the loaded vocabulary d, in dict iteration order
    structures_file,     \* the lines of "open structures.sdf" (as published)
    file_exists,         \* os.path.exists(structures_file)
    dbid_to_mol_lookup,  \* the process-wide structure cache
    pc,                  \* per thread: position inside find_drugs
    args,                \* per thread: arguments of the running call
    locals,              \* per thread: line position, current_structure, is_in_structure,
                         \* len(drug_matches) after pass 1, position of the enrichment loop
    drug_matches,        \* per thread: the list built by the two passes
    ret,                 \* per thread: what the call returned or raised
    init_count,          \* how many times the cache initialisation block was entered
    fpc,                 \* position of the direct get_fuzzy_match caller
    surface_form,        \* argument of the running get_fuzzy_match call
    candidate_to_jaccard,\* local dict of get_fuzzy_match when it left the function
    fuzzy_ret            \* what get_fuzzy_match returned or raised

vars == <<dictionary, structures_file, file_exists, dbid_to_mol_lookup, pc, args,
          locals, drug_matches, ret, init_count, fpc, surface_form,
          candidate_to_jaccard, fuzzy_ret>>

scan_vars == <<structures_file, file_exists, dbid_to_mol_lookup, pc, args, locals,
               drug_matches, ret, init_count>>

fuzzy_vars == <<fpc, surface_form, candidate_to_jaccard, fuzzy_ret>>

----------------------------------------------------------------------------
\* Bounds of the model.

\* largest number of variants in a vocabulary
MaxVocab == 3

\* longest token sequence passed to find_drugs
MaxTokens == 3

\* largest number of records in the structure file
MaxRecords == 2

\* number of threads calling find_drugs concurrently
NumThreads == 2

----------------------------------------------------------------------------
\* Strings.

\* str.lower() on one character of the alphabet {a, b, A, B, space}
LowerChar(c) == IF c = "A" THEN "a" ELSE IF c = "B" THEN "b" ELSE c

\* str.lower()
lower(s) == [i \in 1..Len(s) |-> LowerChar(s[i])]

\* token + " " + tokens[token_idx + 1]
JoinTokens(s, t) == s \o <<" ">> \o t

\* n of get_ngrams
NgramLen == 3

\* get_ngrams: the set of text[i:i+n] for i in range(0, len(text) - n + 1)
get_ngrams(text) ==
    { SubSeq(text, i + 1, i + NgramLen) : i \in 0..(Len(text) - NgramLen) }

\* the elements of a list
Range(seq) == { seq[i] : i \in 1..Len(seq) }

----------------------------------------------------------------------------
\* The vocabulary (drug_ner_dictionary.pkl.bz2 is data, drawn at Init).

\* metadata of the canonical drugs before the synonyms are added
CanonicalRecords ==
    [ C_AA  |-> [name |-> "AA",  drugbank_id |-> "DB1"],
      C_A   |-> [name |-> "A",   drugbank_id |-> "DB2"],
      C_A2  |-> [name |-> "A2"],
      C_AAA |-> [name |-> "AAA", drugbank_id |-> "DB9"],
      C_AAB |-> [name |-> "AAB", drugbank_id |-> "DB1"],
      C_ABB |-> [name |-> "ABB"],
      C_BAAA |-> [name |-> "BAAA"],
      C_LONG |-> [name |-> "LONG"] ]

\* one item of the vocabulary: a variant, its canonical ids, its override data
Entry(v, cs, vd) == [variant |-> v, canonicals |-> cs, variant_data |-> vd]

\* is_brand stands for the per-variant annotations of drug_variant_to_variant_data
BrandData == [is_brand |-> TRUE]

\* a variant without override data has no key in drug_variant_to_variant_data
NoData == <<>>

\* vocabulary items used by the scanner: a two-token variant, a one-token
\* variant with two canonical ids, and two longer two-token variants
ScanEntries ==
    { Entry(<<"a", " ", "a">>, <<"C_AA">>, BrandData),
      Entry(<<"a">>, <<"C_A", "C_A2">>, NoData),
      Entry(<<"a", "a", "a", " ", "a">>, <<"C_AAA">>, NoData),
      Entry(<<"a", " ", "a", "a">>, <<"C_AA">>, NoData) }

\* vocabulary items used by the direct get_fuzzy_match calls
FuzzyEntries ==
    { Entry(<<"a", "a", "b">>, <<"C_AAB">>, NoData),
      Entry(<<"a", "b", "b">>, <<"C_ABB">>, NoData),
      Entry(<<"b", "a", "a", "a">>, <<"C_BAAA">>, NoData),
      Entry(<<"a", "a", "a", "b", "b", "b", "a">>, <<"C_LONG">>, BrandData) }

\* the vocabularies of at most MaxVocab items over E, in every iteration order
\* (a dict has no duplicate keys)
Vocabularies(E) ==
    { s \in UNION { [1..n -> E] : n \in 0..MaxVocab } :
        \A i, j \in 1..Len(s) : i # j => s[i].variant # s[j].variant }

\* the keys of drug_variant_to_canonical, in iteration order
Variants == [i \in 1..Len(dictionary) |-> dictionary[i].variant]

\* "key in drug_variant_to_canonical"
IsVariant(v) == \E i \in 1..Len(dictionary) : dictionary[i].variant = v

\* the item of a variant that is a key
EntryOf(v) == dictionary[CHOOSE i \in 1..Len(dictionary) : dictionary[i].variant = v]

\* drug_variant_to_canonical.get(v, None): found is FALSE for None
drug_variant_to_canonical_get(v) ==
    IF IsVariant(v) THEN [found |-> TRUE, value |-> EntryOf(v).canonicals]
    ELSE [found |-> FALSE, value |-> <<>>]

\* "if match:" is true of a non-empty list only
Truthy(match) == match.found /\ Len(match.value) > 0

\* drug_variant_to_variant_data.get(v, {})
drug_variant_to_variant_data_get(v) ==
    IF IsVariant(v) THEN EntryOf(v).variant_data ELSE <<>>

\* the synonyms list the load loop appends to: every variant, in iteration order,
\* whose canonical ids include c
Synonyms(c) ==
    LET Has(v) == c \in Range(EntryOf(v).canonicals)
    IN SelectSeq(Variants, Has)

\* drug_canonical_to_data[c] after the load loop
drug_canonical_to_data(c) ==
    IF Synonyms(c) = <<>> THEN CanonicalRecords[c]
    ELSE ("synonyms" :> Synonyms(c)) @@ CanonicalRecords[c]

\* dict(a) | b : the keys of b win
Merge(a, b) == b @@ a

----------------------------------------------------------------------------
\* The 3-gram index.

\* variant_to_ngrams[v]
variant_to_ngrams(v) == get_ngrams(v)

\* ngram_to_variant.get(g, []) : the variants containing g, in iteration order;
\* g is a key exactly when the list is not empty
ngram_to_variant_list(g) ==
    LET Has(v) == g \in variant_to_ngrams(v)
    IN SelectSeq(Variants, Has)

\* the module-level name ngrams after the index loop: the 3-grams of the last
\* variant iterated (the name is unbound when the vocabulary is empty)
ngrams ==
    IF Len(dictionary) = 0 THEN {} ELSE get_ngrams(Variants[Len(dictionary)])

----------------------------------------------------------------------------
\* get_fuzzy_match.

\* a similarity num / den, kept as the pair of the two integers divided
Ratio(num, den) == <<num, den>>

\* a / b as floats: equal quotients, smaller quotient
RatEq(a, b) == a[1] * b[2] = b[1] * a[2]
RatLess(a, b) == a[1] * b[2] < b[1] * a[2]

\* what a get_fuzzy_match call ends with
ReturnMatch(v, sim) == [kind |-> "match", variant |-> v, similarity |-> sim]
ReturnNone == [kind |-> "none", variant |-> <<>>, similarity |-> Ratio(0, 1)]
RaiseKeyError == [kind |-> "KeyError", variant |-> <<>>, similarity |-> Ratio(0, 1)]

\* ngram_to_variant[ngram] raises KeyError for a 3-gram of no variant
LookupRaises(query) ==
    \E g \in get_ngrams(query) : ngram_to_variant_list(g) = <<>>

\* the keys of candidate_to_num_matching_ngrams
Candidates(query) ==
    UNION { Range(ngram_to_variant_list(g)) : g \in get_ngrams(query) }

\* candidate_to_num_matching_ngrams[c]: one increment for every query 3-gram
\* whose list holds c
NumMatching(query, c) ==
    Cardinality({ g \in get_ngrams(query) : c \in Range(ngram_to_variant_list(g)) })

\* ngrams.union(variant_to_ngrams[candidate]): ngrams is the module-level name
UnionForJaccard(query, c) == ngrams \cup variant_to_ngrams(c)

\* jaccard = num_matching_ngrams / len(ngrams_in_query_and_candidate)
Jaccard(query, c) ==
    Ratio(NumMatching(query, c), Cardinality(UnionForJaccard(query, c)))

\* the dict candidate_to_jaccard
CandidateToJaccard(query) == [c \in Candidates(query) |-> Jaccard(query, c)]

\* the keys of candidate_to_jaccard no other key beats
MaxCandidates(table) ==
    { c \in DOMAIN table : \A o \in DOMAIN table : ~RatLess(table[c], table[o]) }

\* the first element of a list that is in a set
FirstIn(seq, S) == seq[CHOOSE i \in 1..Len(seq) :
                         seq[i] \in S /\ \A j \in 1..(i - 1) : seq[j] \notin S]

\* max(candidate_to_jaccard, key=...) returns the first maximal key in insertion
\* order.  Keys are inserted while iterating the set query_ngrams, whose order
\* follows the string hashes of the run, and then each 3-gram's list: the first
\* maximal key is the first maximal variant of the list of whichever 3-gram
\* comes first among those that list one.
TopCandidates(query, table) ==
    LET maxc == MaxCandidates(table)
    IN { FirstIn(ngram_to_variant_list(g), maxc) :
           g \in { h \in get_ngrams(query) :
                     Range(ngram_to_variant_list(h)) \cap maxc # {} } }

\* the limit of the acceptance gate
MaxMissing == 3

\* max([len(query - candidate), len(candidate - query)]) <= 3
Accepts_QuerySideOnly(query, c) ==
    Cardinality(get_ngrams(query) \ variant_to_ngrams(c)) <= MaxMissing
Accepts(query, c) ==
    LET query_ngrams_missing_in_candidate == get_ngrams(query) \ variant_to_ngrams(c)
        candidate_ngrams_missing_in_query == variant_to_ngrams(c) \ get_ngrams(query)
    IN /\ Cardinality(query_ngrams_missing_in_candidate) <= MaxMissing
       /\ Cardinality(candidate_ngrams_missing_in_query) <= MaxMissing

\* get_fuzzy_match(surface_form): every outcome a run can produce
get_fuzzy_match(query) ==
    IF LookupRaises(query) THEN {RaiseKeyError}
    ELSE LET table == CandidateToJaccard(query)
         IN IF DOMAIN table = {} THEN {ReturnNone}
            ELSE { IF Accepts(query, top) THEN ReturnMatch(top, table[top])
                   ELSE ReturnNone : top \in TopCandidates(query, table) }

----------------------------------------------------------------------------
\* find_drugs: the two passes.

\* the tuple (match_data, start, end) appended to drug_matches
Mention(data, start, end) == [data |-> data, start |-> start, end |-> end]

\* "for m in match": one mention per canonical id of an exactly matched variant
ExactMentions_FirstCanonical(cand_norm, start, end) ==
    LET match == drug_variant_to_canonical_get(cand_norm).value
    IN << Mention(Merge(drug_canonical_to_data(match[1]),
                        drug_variant_to_variant_data_get(cand_norm)),
                  start, end) >>
ExactMentions(cand_norm, start, end) ==
    LET match == drug_variant_to_canonical_get(cand_norm).value
    IN [k \in 1..Len(match) |->
          Mention(Merge(drug_canonical_to_data(match[k]),
                        drug_variant_to_variant_data_get(cand_norm)),
                  start, end)]

\* "for m in match": one mention per canonical id of the fuzzy-matched variant,
\* tagged with match_type and match_similarity
FuzzyMentions(fm, start, end) ==
    LET match == drug_variant_to_canonical_get(fm.variant).value
    IN [k \in 1..Len(match) |->
          Mention(("match_type" :> "fuzzy") @@ ("match_similarity" :> fm.similarity) @@
                  Merge(drug_canonical_to_data(match[k]),
                        drug_variant_to_variant_data_get(fm.variant)),
                  start, end)]

\* the locals of the passes: drug_matches, is_exclude, and whether a KeyError left
\* the function
ScanState(matches, excl) == [raised |-> FALSE, matches |-> matches, is_exclude |-> excl]
ScanRaised == [raised |-> TRUE, matches |-> <<>>, is_exclude |-> {}]

\* is_exclude after an exact bigram match at token_idx
Exclude_FirstOnly(excl, token_idx) == excl \cup {token_idx}
Exclude(excl, token_idx) == excl \cup {token_idx, token_idx + 1}

\* the end index the fuzzy branch of pass 2 appends
FuzzyUnigramEnd(token_idx) == token_idx + 1

\* pass 1 from token_idx on: "for token_idx, token in enumerate(tokens[:-1])"
RECURSIVE Pass1(_, _, _, _)
Pass1(tokens, is_fuzzy_match, token_idx, st) ==
    IF token_idx > Len(tokens) - 2 THEN {st}
    ELSE
      LET cand_norm == lower(JoinTokens(tokens[token_idx + 1], tokens[token_idx + 2]))
          match == drug_variant_to_canonical_get(cand_norm)
      IN IF Truthy(match) THEN
           Pass1(tokens, is_fuzzy_match, token_idx + 1,
                 ScanState(st.matches \o ExactMentions(cand_norm, token_idx, token_idx + 1),
                           Exclude(st.is_exclude, token_idx)))
         ELSE IF is_fuzzy_match THEN
           UNION { IF fm.kind = "KeyError" THEN {ScanRaised}
                   ELSE IF fm.kind = "match" THEN
                     Pass1(tokens, is_fuzzy_match, token_idx + 1,
                           ScanState(st.matches \o
                                       FuzzyMentions(fm, token_idx, token_idx + 1),
                                     st.is_exclude))
                   ELSE Pass1(tokens, is_fuzzy_match, token_idx + 1, st)
                   : fm \in get_fuzzy_match(cand_norm) }
         ELSE Pass1(tokens, is_fuzzy_match, token_idx + 1, st)

\* pass 2 from token_idx on: "for token_idx, token in enumerate(tokens)"
RECURSIVE Pass2(_, _, _, _)
Pass2(tokens, is_fuzzy_match, token_idx, st) ==
    IF token_idx > Len(tokens) - 1 THEN {st}
    ELSE IF token_idx \in st.is_exclude THEN
      Pass2(tokens, is_fuzzy_match, token_idx + 1, st)
    ELSE
      LET cand_norm == lower(tokens[token_idx + 1])
          match == drug_variant_to_canonical_get(cand_norm)
      IN IF Truthy(match) THEN
           Pass2(tokens, is_fuzzy_match, token_idx + 1,
                 ScanState(st.matches \o ExactMentions(cand_norm, token_idx, token_idx),
                           st.is_exclude))
         ELSE IF is_fuzzy_match THEN
           UNION { IF fm.kind = "KeyError" THEN {ScanRaised}
                   ELSE IF fm.kind = "match" THEN
                     Pass2(tokens, is_fuzzy_match, token_idx + 1,
                           ScanState(st.matches \o
                                       FuzzyMentions(fm, token_idx,
                                                     FuzzyUnigramEnd(token_idx)),
                                     st.is_exclude))
                   ELSE Pass2(tokens, is_fuzzy_match, token_idx + 1, st)
                   : fm \in get_fuzzy_match(cand_norm) }
         ELSE Pass2(tokens, is_fuzzy_match, token_idx + 1, st)

\* lines 131-179: every outcome of the two passes; n_pass1 is len(drug_matches)
\* when pass 1 ended
Scan(tokens, is_fuzzy_match) ==
    UNION { IF p1.raised THEN { [raised |-> TRUE, matches |-> <<>>, n_pass1 |-> 0] }
            ELSE { [raised |-> p2.raised, matches |-> p2.matches,
                    n_pass1 |-> IF p2.raised THEN 0 ELSE Len(p1.matches)]
                   : p2 \in Pass2(tokens, is_fuzzy_match, 0, p1) }
            : p1 \in Pass1(tokens, is_fuzzy_match, 0, ScanState(<<>>, {})) }

----------------------------------------------------------------------------
\* find_drugs: the structure cache.

\* the identifier of the r-th record
DbId(r) == "DB" \o ToString(r)

\* the lines of one record of the structure file: the mol block, the
\* "> <DRUGBANK_ID>" marker, the identifier line, the "$$$$" separator
RecordLines(r) ==
    << [kind |-> "mol", rec |-> r], [kind |-> "marker", rec |-> r],
       [kind |-> "id", rec |-> r], [kind |-> "sep", rec |-> r] >>

\* a structure file of n records
RECURSIVE FileOf(_)
FileOf(n) == IF n = 0 THEN <<>> ELSE FileOf(n - 1) \o RecordLines(n)

\* "DRUGBANK_ID" in l
ContainsMarker(l) == l.kind = "marker"

\* l.startswith("DB")
StartsWithDB(l) == l.kind = "id"

\* l.strip() of an identifier line
Strip(l) == DbId(l.rec)

\* is_in_structure after a record's identifier line was stored
InStructureAfterId == FALSE

\* the body of "for l in f" for one line, on the locals and the cache;
\* current_structure + "\n" + l is kept as the list of the lines joined
ParseLine(loc, lookup, l) ==
    LET cur == IF loc.is_in_structure /\ ~ContainsMarker(l)
               THEN Append(loc.current_structure, l)
               ELSE loc.current_structure
    IN IF StartsWithDB(l)
       THEN [loc |-> [loc EXCEPT !.pos = @ + 1, !.current_structure = <<>>,
                                 !.is_in_structure = InStructureAfterId],
             lookup |-> (Strip(l) :> cur) @@ lookup]
       ELSE [loc |-> [loc EXCEPT !.pos = @ + 1, !.current_structure = cur],
             lookup |-> lookup]

\* the whole "for l in f" loop, from the locals loc on
RECURSIVE ParseFrom(_, _, _)
ParseFrom(loc, lookup, file) ==
    IF loc.pos >= Len(file) THEN [loc |-> loc, lookup |-> lookup]
    ELSE LET nxt == ParseLine(loc, lookup, file[loc.pos + 1])
         IN ParseFrom(nxt.loc, nxt.lookup, file)

\* dbid_to_mol_lookup["downloading"] = True
MarkDownloading(lookup) == ("downloading" :> TRUE) @@ lookup

\* lines 184-187 for one mention
EnrichOne(m, lookup) ==
    IF "drugbank_id" \in DOMAIN m.data /\ m.data.drugbank_id \in DOMAIN lookup
    THEN [m EXCEPT !.data = ("structure_mol" :> lookup[m.data.drugbank_id]) @@ m.data]
    ELSE m

\* lines 181-187 for the whole list
Enrich(matches, lookup) == [k \in 1..Len(matches) |-> EnrichOne(matches[k], lookup)]

----------------------------------------------------------------------------
\* Threads, and the values of the variables before any call.

Threads == 1..NumThreads
NoArgs == [tokens |-> <<>>, is_fuzzy_match |-> FALSE, is_include_structure |-> FALSE]
NoLocals == [pos |-> 0, current_structure |-> <<>>, is_in_structure |-> TRUE,
             n_pass1 |-> 0, k |-> 0]
NoReturn == [raised |-> "", value |-> <<>>]

InitScanVars ==
    /\ structures_file = <<>>
    /\ file_exists = FALSE
    /\ dbid_to_mol_lookup = <<>>
    /\ pc = [t \in Threads |-> "idle"]
    /\ args = [t \in Threads |-> NoArgs]
    /\ locals = [t \in Threads |-> NoLocals]
    /\ drug_matches = [t \in Threads |-> <<>>]
    /\ ret = [t \in Threads |-> NoReturn]
    /\ init_count = 0

InitFuzzyVars ==
    /\ fpc = "ready"
    /\ surface_form = <<>>
    /\ candidate_to_jaccard = <<>>
    /\ fuzzy_ret = ReturnNone

----------------------------------------------------------------------------
\* Direct calls of get_fuzzy_match.

\* strings passed directly to get_fuzzy_match
Queries ==
    { <<"a", "b">>, <<"a", "a", "a">>, <<"a", "b", "a">>, <<"a", "b", "b">>,
      <<"a", "a", "b", "b">>, <<"b", "a", "a", "b">> }

\* a caller invokes get_fuzzy_match(q); the call runs to its return or raise
FuzzyCall ==
    /\ fpc = "ready"
    /\ \E q \in Queries :
         /\ surface_form' = q
         /\ candidate_to_jaccard' =
                IF LookupRaises(q) THEN <<>> ELSE CandidateToJaccard(q)
         /\ fuzzy_ret' \in get_fuzzy_match(q)
    /\ fpc' = "done"
    /\ UNCHANGED <<dictionary, scan_vars>>

\* the caller drops the result and is ready for the next call
FuzzyReturn ==
    /\ fpc = "done"
    /\ fpc' = "ready"
    /\ surface_form' = <<>>
    /\ candidate_to_jaccard' = <<>>
    /\ fuzzy_ret' = ReturnNone
    /\ UNCHANGED <<dictionary, scan_vars>>

\* the matcher alone: a vocabulary is loaded, then get_fuzzy_match is called
InitFuzzy ==
    /\ dictionary \in Vocabularies(FuzzyEntries)
    /\ InitScanVars
    /\ InitFuzzyVars

NextFuzzy == FuzzyCall \/ FuzzyReturn

SpecFuzzy == InitFuzzy /\ [][NextFuzzy]_vars

----------------------------------------------------------------------------
\* find_drugs called by one thread at a time: the call runs to its end.

\* tokens handed to find_drugs
Tokens == { <<"a">>, <<"A">>, <<"a", "a", "a">> }

\* token sequences of at most MaxTokens tokens
TokenSeqs == UNION { [1..n -> Tokens] : n \in 0..MaxTokens }

\* the published structure file, of MaxRecords records
Files == { FileOf(MaxRecords) }

Returned(value) == [raised |-> "", value |-> value]
Raised(what) == [raised |-> what, value |-> <<>>]

\* find_drugs(tokens, is_fuzzy_match, None, is_include_structure), lines 111-189;
\* download_structures either leaves the file on disk or raises
FindDrugs(t) ==
    /\ pc[t] = "idle"
    /\ \E tokens \in TokenSeqs, fz \in BOOLEAN, inc \in BOOLEAN :
         LET need == inc /\ DOMAIN dbid_to_mol_lookup = {}
             marked == IF need THEN MarkDownloading(dbid_to_mol_lookup)
                       ELSE dbid_to_mol_lookup
         IN \E dl_ok \in (IF need /\ ~file_exists THEN BOOLEAN ELSE {TRUE}) :
              LET parsed == IF need /\ dl_ok
                            THEN ParseFrom(NoLocals, marked, structures_file)
                            ELSE [loc |-> NoLocals, lookup |-> marked]
              IN /\ args' = [args EXCEPT ![t] =
                               [tokens |-> tokens, is_fuzzy_match |-> fz,
                                is_include_structure |-> inc]]
                 /\ dbid_to_mol_lookup' = parsed.lookup
                 /\ file_exists' = (file_exists \/ (need /\ dl_ok))
                 /\ init_count' = init_count + (IF need THEN 1 ELSE 0)
                 /\ IF ~dl_ok
                    THEN /\ locals' = [locals EXCEPT ![t] = parsed.loc]
                         /\ drug_matches' = [drug_matches EXCEPT ![t] = <<>>]
                         /\ ret' = [ret EXCEPT ![t] = Raised("IOError")]
                    ELSE \E sc \in Scan(tokens, fz) :
                           LET out == IF inc THEN Enrich(sc.matches, parsed.lookup)
                                      ELSE sc.matches
                           IN /\ locals' = [locals EXCEPT ![t] =
                                    [parsed.loc EXCEPT !.n_pass1 = sc.n_pass1,
                                        !.k = IF inc /\ ~sc.raised THEN Len(out) ELSE 0]]
                              /\ drug_matches' = [drug_matches EXCEPT ![t] = out]
                              /\ ret' = [ret EXCEPT ![t] =
                                    IF sc.raised THEN Raised("KeyError")
                                    ELSE Returned(out)]
    /\ pc' = [pc EXCEPT ![t] = "done"]
    /\ UNCHANGED <<dictionary, structures_file, fuzzy_vars>>

\* the caller takes the result; the thread is ready for its next call
Return(t) ==
    /\ pc[t] = "done"
    /\ pc' = [pc EXCEPT ![t] = "idle"]
    /\ args' = [args EXCEPT ![t] = NoArgs]
    /\ locals' = [locals EXCEPT ![t] = NoLocals]
    /\ drug_matches' = [drug_matches EXCEPT ![t] = <<>>]
    /\ ret' = [ret EXCEPT ![t] = NoReturn]
    /\ UNCHANGED <<dictionary, structures_file, file_exists, dbid_to_mol_lookup,
                   init_count, fuzzy_vars>>

\* the process after import: a vocabulary is loaded, the cache is empty, the
\* structure file is on disk or not
Init ==
    /\ dictionary \in Vocabularies(ScanEntries)
    /\ structures_file \in Files
    /\ file_exists \in BOOLEAN
    /\ dbid_to_mol_lookup = <<>>
    /\ pc = [t \in Threads |-> "idle"]
    /\ args = [t \in Threads |-> NoArgs]
    /\ locals = [t \in Threads |-> NoLocals]
    /\ drug_matches = [t \in Threads |-> <<>>]
    /\ ret = [t \in Threads |-> NoReturn]
    /\ init_count = 0
    /\ InitFuzzyVars

FindDrugsCall == FindDrugs(1)
FindDrugsReturn == Return(1)

Next == FindDrugsCall \/ FindDrugsReturn

Spec == Init /\ [][Next]_vars

----------------------------------------------------------------------------
\* find_drugs called by several threads: the interpreter may switch threads
\* between the statements of a call, and releases the lock during file I/O.

\* the vocabulary of the concurrent runs: a two-token and a one-token variant
ConcDictionaries ==
    { << Entry(<<"a", " ", "a">>, <<"C_AA">>, BrandData),
         Entry(<<"a">>, <<"C_A", "C_A2">>, NoData) >> }

\* the token sequences of the concurrent runs
ConcTokenSeqs == { << <<"a">> >>, << <<"a">>, <<"A">> >> }

\* a thread enters find_drugs
Call(t) ==
    /\ pc[t] = "idle"
    /\ \E tokens \in ConcTokenSeqs, fz \in BOOLEAN, inc \in BOOLEAN :
         args' = [args EXCEPT ![t] = [tokens |-> tokens, is_fuzzy_match |-> fz,
                                      is_include_structure |-> inc]]
    /\ pc' = [pc EXCEPT ![t] = "check"]
    /\ UNCHANGED <<dictionary, structures_file, file_exists, dbid_to_mol_lookup,
                   locals, drug_matches, ret, init_count, fuzzy_vars>>

\* lines 111-112: if is_include_structure: if len(dbid_to_mol_lookup) == 0
CheckCache(t) ==
    /\ pc[t] = "check"
    /\ pc' = [pc EXCEPT ![t] =
                IF args[t].is_include_structure /\ DOMAIN dbid_to_mol_lookup = {}
                THEN "mark" ELSE "scan"]
    /\ UNCHANGED <<dictionary, structures_file, file_exists, dbid_to_mol_lookup,
                   args, locals, drug_matches, ret, init_count, fuzzy_vars>>

\* line 113: dbid_to_mol_lookup["downloading"] = True
Mark(t) ==
    /\ pc[t] = "mark"
    /\ dbid_to_mol_lookup' = MarkDownloading(dbid_to_mol_lookup)
    /\ init_count' = init_count + 1
    /\ pc' = [pc EXCEPT ![t] = "exists"]
    /\ UNCHANGED <<dictionary, structures_file, file_exists, args, locals,
                   drug_matches, ret, fuzzy_vars>>

\* lines 115-116: is_exists = os.path.exists(structures_file)
Exists(t) ==
    /\ pc[t] = "exists"
    /\ pc' = [pc EXCEPT ![t] = IF file_exists THEN "parse" ELSE "download"]
    /\ UNCHANGED <<dictionary, structures_file, file_exists, dbid_to_mol_lookup,
                   args, locals, drug_matches, ret, init_count, fuzzy_vars>>

\* line 117: download_structures(this_path) leaves the file on disk
DownloadOk(t) ==
    /\ pc[t] = "download"
    /\ file_exists' = TRUE
    /\ pc' = [pc EXCEPT ![t] = "parse"]
    /\ UNCHANGED <<dictionary, structures_file, dbid_to_mol_lookup, args, locals,
                   drug_matches, ret, init_count, fuzzy_vars>>

\* line 117: download_structures(this_path) raises and find_drugs with it
DownloadFails(t) ==
    /\ pc[t] = "download"
    /\ ret' = [ret EXCEPT ![t] = Raised("IOError")]
    /\ pc' = [pc EXCEPT ![t] = "done"]
    /\ UNCHANGED <<dictionary, structures_file, file_exists, dbid_to_mol_lookup,
                   args, locals, drug_matches, init_count, fuzzy_vars>>

\* lines 122-129: one iteration of "for l in f"
ParseStep(t) ==
    /\ pc[t] = "parse"
    /\ locals[t].pos < Len(structures_file)
    /\ LET nxt == ParseLine(locals[t], dbid_to_mol_lookup,
                            structures_file[locals[t].pos + 1])
       IN /\ locals' = [locals EXCEPT ![t] = nxt.loc]
          /\ dbid_to_mol_lookup' = nxt.lookup
    /\ UNCHANGED <<dictionary, structures_file, file_exists, pc, args,
                   drug_matches, ret, init_count, fuzzy_vars>>

\* line 122: the file is exhausted
ParseEnd(t) ==
    /\ pc[t] = "parse"
    /\ locals[t].pos >= Len(structures_file)
    /\ pc' = [pc EXCEPT ![t] = "scan"]
    /\ UNCHANGED <<dictionary, structures_file, file_exists, dbid_to_mol_lookup,
                   args, locals, drug_matches, ret, init_count, fuzzy_vars>>

\* lines 131-179: the two passes read the vocabulary only; without
\* is_include_structure the call returns at line 189
ScanStep(t) ==
    /\ pc[t] = "scan"
    /\ \E sc \in Scan(args[t].tokens, args[t].is_fuzzy_match) :
         /\ locals' = [locals EXCEPT ![t].n_pass1 = sc.n_pass1]
         /\ drug_matches' = [drug_matches EXCEPT ![t] = sc.matches]
         /\ IF sc.raised
            THEN /\ ret' = [ret EXCEPT ![t] = Raised("KeyError")]
                 /\ pc' = [pc EXCEPT ![t] = "done"]
            ELSE IF args[t].is_include_structure
            THEN /\ ret' = ret
                 /\ pc' = [pc EXCEPT ![t] = "enrich"]
            ELSE /\ ret' = [ret EXCEPT ![t] = Returned(sc.matches)]
                 /\ pc' = [pc EXCEPT ![t] = "done"]
    /\ UNCHANGED <<dictionary, structures_file, file_exists, dbid_to_mol_lookup,
                   args, init_count, fuzzy_vars>>

\* lines 182-187: one iteration of "for match in drug_matches"
EnrichStep(t) ==
    /\ pc[t] = "enrich"
    /\ locals[t].k < Len(drug_matches[t])
    /\ drug_matches' = [drug_matches EXCEPT ![t][locals[t].k + 1] =
                           EnrichOne(@, dbid_to_mol_lookup)]
    /\ locals' = [locals EXCEPT ![t].k = @ + 1]
    /\ UNCHANGED <<dictionary, structures_file, file_exists, dbid_to_mol_lookup,
                   pc, args, ret, init_count, fuzzy_vars>>

\* line 189: return drug_matches
EnrichEnd(t) ==
    /\ pc[t] = "enrich"
    /\ locals[t].k >= Len(drug_matches[t])
    /\ ret' = [ret EXCEPT ![t] = Returned(drug_matches[t])]
    /\ pc' = [pc EXCEPT ![t] = "done"]
    /\ UNCHANGED <<dictionary, structures_file, file_exists, dbid_to_mol_lookup,
                   args, locals, drug_matches, init_count, fuzzy_vars>>

InitConc ==
    /\ dictionary \in ConcDictionaries
    /\ structures_file \in Files
    /\ file_exists \in BOOLEAN
    /\ dbid_to_mol_lookup = <<>>
    /\ pc = [t \in Threads |-> "idle"]
    /\ args = [t \in Threads |-> NoArgs]
    /\ locals = [t \in Threads |-> NoLocals]
    /\ drug_matches = [t \in Threads |-> <<>>]
    /\ ret = [t \in Threads |-> NoReturn]
    /\ init_count = 0
    /\ InitFuzzyVars

NextConc ==
    \E t \in Threads :
        \/ Call(t) \/ CheckCache(t) \/ Mark(t) \/ Exists(t)
        \/ DownloadOk(t) \/ DownloadFails(t) \/ ParseStep(t) \/ ParseEnd(t)
        \/ ScanStep(t) \/ EnrichStep(t) \/ EnrichEnd(t) \/ Return(t)

SpecConc == InitConc /\ [][NextConc]_vars

----------------------------------------------------------------------------
\* Properties of get_fuzzy_match (SpecFuzzy).

\* the number of 3-grams shared by two strings over the size of the union of
\* their 3-gram sets
SharedOverUnion(q, v) ==
    Ratio(Cardinality(get_ngrams(q) \cap get_ngrams(v)),
          Cardinality(get_ngrams(q) \cup get_ngrams(v)))

\* both one-sided 3-gram differences are at most 3
WithinGate(q, v) ==
    /\ Cardinality(get_ngrams(q) \ get_ngrams(v)) <= 3
    /\ Cardinality(get_ngrams(v) \ get_ngrams(q)) <= 3

\* the candidates with the highest similarity in candidate_to_jaccard
HighestRanked ==
    { c \in DOMAIN candidate_to_jaccard :
        \A o \in DOMAIN candidate_to_jaccard :
            ~RatLess(candidate_to_jaccard[c], candidate_to_jaccard[o]) }

\* C3: get_fuzzy_match never raises: every call ends with an accepted
\* (variant, similarity) pair or with (None, None).
C3_NeverRaises ==
    fpc = "done" => fuzzy_ret.kind \in {"match", "none"}

\* C4: the similarity assigned to every candidate, and the one returned for the
\* accepted candidate, is the number of 3-grams shared by query and candidate
\* divided by the size of the union of their two 3-gram sets.
C4_SimilarityIsJaccard ==
    (fpc = "done" /\ fuzzy_ret.kind # "KeyError") =>
        /\ \A c \in DOMAIN candidate_to_jaccard :
              RatEq(candidate_to_jaccard[c], SharedOverUnion(surface_form, c))
        /\ fuzzy_ret.kind = "match" =>
              RatEq(fuzzy_ret.similarity, SharedOverUnion(surface_form, fuzzy_ret.variant))

\* C8: a returned similarity lies in (0, 1] and the returned variant is a
\* highest-ranked candidate within the gate on both sides; when no highest-ranked
\* candidate is within the gate the result is no match, whatever the lower-ranked
\* candidates are.
C8_AcceptedWithinGate ==
    (fpc = "done" /\ fuzzy_ret.kind # "KeyError") =>
        /\ fuzzy_ret.kind = "match" =>
              /\ 0 < fuzzy_ret.similarity[1]
              /\ fuzzy_ret.similarity[1] <= fuzzy_ret.similarity[2]
              /\ WithinGate(surface_form, fuzzy_ret.variant)
              /\ fuzzy_ret.variant \in HighestRanked
              /\ fuzzy_ret.similarity = candidate_to_jaccard[fuzzy_ret.variant]
        /\ (\A c \in HighestRanked : ~WithinGate(surface_form, c)) =>
              fuzzy_ret.kind = "none"

\* C8 witness: the highest-ranked candidate is outside the gate, a lower-ranked
\* one is within it, and the call returned no match.
C8_Witness ==
    /\ fpc = "done"
    /\ fuzzy_ret.kind = "none"
    /\ HighestRanked # {}
    /\ \A c \in HighestRanked : ~WithinGate(surface_form, c)
    /\ \E c \in DOMAIN candidate_to_jaccard :
          c \notin HighestRanked /\ WithinGate(surface_form, c)

----------------------------------------------------------------------------
\* Properties of find_drugs called by one thread (Spec).

\* the finished call of thread 1 and what it was given
CallDone == pc[1] = "done"
CallReturned == pc[1] = "done" /\ ret[1].raised = ""
CallTokens == args[1].tokens
Result == ret[1].value

\* token positions of the call, and the positions that start an adjacent pair
Positions == 0..(Len(CallTokens) - 1)
PairStarts == 0..(Len(CallTokens) - 2)

\* the pair (i, i+1) of the call is a vocabulary variant when joined and lower-cased
PairIsVariant(i) ==
    IsVariant(lower(JoinTokens(CallTokens[i + 1], CallTokens[i + 2])))

\* the token at i is a vocabulary variant when lower-cased
TokenIsVariant(i) == IsVariant(lower(CallTokens[i + 1]))

\* position i belongs to an adjacent pair that is a vocabulary variant
InVariantPair(i) ==
    \/ (i \in PairStarts /\ PairIsVariant(i))
    \/ (i - 1 \in PairStarts /\ PairIsVariant(i - 1))

IsFuzzy(m) == "match_type" \in DOMAIN m.data /\ m.data.match_type = "fuzzy"

\* the result holds a mention of canonical id c with the span (s, e)
HasMention(c, s, e) ==
    \E k \in 1..Len(Result) :
        /\ Result[k].start = s
        /\ Result[k].end = e
        /\ Result[k].data.name = CanonicalRecords[c].name

\* C1: for either value of the fuzzy flag, every adjacent pair that is a
\* vocabulary variant gets an exact bigram mention over (i, i+1) in the result,
\* and no mention appended by pass 2 starts at i or i+1.  (A failed structure
\* download is not the claim's case.)
C1_ExactBigramReported ==
    (CallDone /\ ret[1].raised # "IOError") =>
        \A i \in PairStarts : PairIsVariant(i) =>
            /\ ret[1].raised = ""
            /\ \E k \in 1..locals[1].n_pass1 :
                  /\ Result[k].start = i /\ Result[k].end = i + 1
                  /\ ~IsFuzzy(Result[k])
            /\ \A k \in (locals[1].n_pass1 + 1)..Len(Result) :
                  Result[k].start \notin {i, i + 1}

\* C2 as stated: with fuzzy disabled, every position whose lower-cased token is a
\* vocabulary variant gets a mention over (i, i) for every canonical id of it.
C2_EveryVariantTokenReported ==
    (CallReturned /\ ~args[1].is_fuzzy_match) =>
        \A i \in Positions : TokenIsVariant(i) =>
            \A c \in Range(EntryOf(lower(CallTokens[i + 1])).canonicals) :
                HasMention(c, i, i)

\* C2 amended: with fuzzy disabled, every position whose lower-cased token is a
\* vocabulary variant and which belongs to no adjacent pair that is itself a
\* vocabulary variant gets a mention over (i, i) for every canonical id of it.
C2_UnexcludedVariantTokenReported ==
    (CallReturned /\ ~args[1].is_fuzzy_match) =>
        \A i \in Positions : (TokenIsVariant(i) /\ ~InVariantPair(i)) =>
            \A c \in Range(EntryOf(lower(CallTokens[i + 1])).canonicals) :
                HasMention(c, i, i)

\* C2 witness: a call without fuzzy matching returned, one variant token stands
\* alone and another one lies inside a variant pair.
C2_Witness ==
    /\ CallReturned /\ ~args[1].is_fuzzy_match
    /\ \E i, j \in Positions :
          /\ TokenIsVariant(i) /\ ~InVariantPair(i)
          /\ Len(EntryOf(lower(CallTokens[i + 1])).canonicals) > 1
          /\ TokenIsVariant(j) /\ InVariantPair(j)

Overlap(m, n) == m.start <= n.end /\ n.start <= m.end
SameSpan(m, n) == m.start = n.start /\ m.end = n.end

\* C7 as stated: with fuzzy disabled, any two mentions of the result have the
\* same span or cover disjoint index ranges.
C7_NoOverlap ==
    (CallReturned /\ ~args[1].is_fuzzy_match) =>
        \A k, l \in 1..Len(Result) :
            SameSpan(Result[k], Result[l]) \/ ~Overlap(Result[k], Result[l])

\* C7 amended: with fuzzy disabled, two mentions of different spans share a token
\* index only when both are two-token mentions, of the consecutive pairs
\* (i, i+1) and (i+1, i+2); a one-token mention shares its index with no mention
\* of another span.
C7_OnlyConsecutiveBigramsOverlap ==
    (CallReturned /\ ~args[1].is_fuzzy_match) =>
        \A k, l \in 1..Len(Result) :
            (Overlap(Result[k], Result[l]) /\ ~SameSpan(Result[k], Result[l])) =>
                /\ Result[k].end = Result[k].start + 1
                /\ Result[l].end = Result[l].start + 1
                /\ (Result[l].start = Result[k].start + 1
                    \/ Result[k].start = Result[l].start + 1)

\* C7 witness: a call without fuzzy matching returned two-token mentions of two
\* consecutive pairs, over tokens that are variants on their own as well.
C7_Witness ==
    /\ CallReturned /\ ~args[1].is_fuzzy_match
    /\ \E k, l \in 1..Len(Result) :
          /\ Result[l].start = Result[k].start + 1
          /\ Result[k].end = Result[k].start + 1
          /\ Result[l].end = Result[l].start + 1
          /\ TokenIsVariant(Result[l].start)

\* the lines of the file after the identifier line of record r - 1 and before
\* the identifier line of record r, without the marker line
BodyOf(file, r) ==
    LET InBody(l) == (l.rec = r /\ l.kind = "mol") \/ (l.rec = r - 1 /\ l.kind = "sep")
    IN SelectSeq(file, InBody)

\* a record's identifier is mapped to the body of that record, with or without
\* the identifier line that ends it
MapsToOwnBody(r) ==
    /\ DbId(r) \in DOMAIN dbid_to_mol_lookup
    /\ \/ dbid_to_mol_lookup[DbId(r)] = BodyOf(structures_file, r)
       \/ dbid_to_mol_lookup[DbId(r)] =
              Append(BodyOf(structures_file, r), [kind |-> "id", rec |-> r])

\* C9: once a call has populated the cache, every record's identifier is mapped
\* to the body of that same record, the second and later records included.
C9_EveryRecordMapped ==
    (CallDone /\ DOMAIN dbid_to_mol_lookup \ {"downloading"} # {}) =>
        \A r \in 1..(Len(structures_file) \div Len(RecordLines(1))) : MapsToOwnBody(r)

\* C10: every returned mention has 0 <= start <= end <= len(tokens) - 1.
C10_SpansInsideTokens ==
    CallReturned =>
        \A k \in 1..Len(Result) :
            /\ 0 <= Result[k].start
            /\ Result[k].start <= Result[k].end
            /\ Result[k].end <= Len(CallTokens) - 1

----------------------------------------------------------------------------
\* Properties of concurrent find_drugs calls (SpecConc).

\* the identifiers of the records of the structure file
FileIds == { DbId(l.rec) : l \in { x \in Range(structures_file) : x.kind = "id" } }

\* C5: in every interleaving of find_drugs calls with is_include_structure, the
\* initialisation of the cache (download if absent, parse) is entered at most once.
C5_InitialisedAtMostOnce == init_count <= 1

\* C6: every call with is_include_structure that returns normally has attached
\* structure_mol to every returned mention whose drugbank_id is the identifier of
\* a record of the structure file.
C6_StructureAttached ==
    \A t \in Threads :
        (pc[t] = "done" /\ ret[t].raised = "" /\ args[t].is_include_structure) =>
            \A k \in 1..Len(ret[t].value) :
                ("drugbank_id" \in DOMAIN ret[t].value[k].data
                 /\ ret[t].value[k].data.drugbank_id \in FileIds) =>
                    "structure_mol" \in DOMAIN ret[t].value[k].data

====
